---------------------------- MODULE Spec2Model ----------------------------
(***************************************************************************)
(* GPU particle-state synchronisation layer of ESPResSo                    *)
(* (src/src/core/cuda_common_cuda.cu), modelled for one MPI process.       *)
(*                                                                         *)
(* Device memory is modelled in stream order: the content of a device      *)
(* buffer is the content every later operation of the ordering queue (a    *)
(* kernel, a copy, a memset) observes.  `pending` holds the asynchronous    *)
(* operations enqueued since the host last waited for the device and not   *)
(* yet known to have completed.                                            *)
(* Floats are integers (0 is 0.0f); Uninit marks memory that was allocated *)
(* and never written.                                                      *)
(***************************************************************************)
EXTENDS Integers, Sequences, FiniteSets, TLC

\* ------------------------------------------------------------- bounds
MaxParts == 2          \* largest external particle count n_part

\* ------------------------------------------------- program constants
threads_per_block_particles == 64
blocks_per_grid_particles_y == 4
LB_COMPONENTS == 2                     \* weights of one CUDA_fluid_composition

Uninit == 0 - 1

\* unsigned int (32 bits) as <<high half, low half>>, 16 bits each
Half == 2 ^ 16

U32(hi, lo) == <<hi, lo>>

\* a + p in unsigned 32-bit arithmetic, for 0 <= p < Half
U32Add(a, p) ==
  LET lo == a[2] + p
  IN <<(a[1] + lo \div Half) % Half, lo % Half>>

UninitSeed == <<Uninit, Uninit>>

\* ----------------------------------------------------- buffer kinds
HostKinds ==
  {"particle_data_host", "particle_forces_host", "particle_torques_host",
   "fluid_composition_host", "host_v_cs"}

DeviceKinds ==
  {"particle_forces_device", "particle_torques_device", "particle_data_device",
   "particle_seeds_device", "fluid_composition_device"}

CountKinds == HostKinds \cup DeviceKinds

Kinds == CountKinds \cup {"energy_device"}

\* compile-time configuration: the preprocessor symbols the file tests
Build(rot, dip, eng, sha) ==
  [ROTATION |-> rot, DIPOLES |-> dip, ENGINE |-> eng, SHANCHEN |-> sha]

\* the configurations explored: no optional feature, torque staging
\* without torque tracking, and every optional feature
Builds ==
  {Build(FALSE, FALSE, FALSE, FALSE), Build(FALSE, TRUE, TRUE, FALSE),
   Build(TRUE, TRUE, TRUE, TRUE)}

\* values std::random_device can return (the last one makes seed + i wrap)
SeedDraws == {U32(0, 5), U32(Half - 1, Half - 1)}

VARIABLES
  this_node,                \* rank of this process
  build,                    \* compile-time configuration
  global_part_vars_host,    \* CUDA_global_part_vars, host copy
  global_part_vars_device,  \* CUDA_global_part_vars, __constant__ mirror
  ptr,                      \* the buffer pointers; 0 is nullptr
  heap,                     \* live allocations <<kind, id>> and their content
  energy_host,              \* CUDA_energy energy_host
  pending,                  \* asynchronous operations possibly in flight
  dead                      \* errexit() was called

vars == <<this_node, build, global_part_vars_host, global_part_vars_device,
          ptr, heap, energy_host, pending, dead>>

\* ------------------------------------------------------------ helpers
Restrict(f, S) == [x \in S |-> f[x]]

Fill(size, v) == [j \in 1..size |-> v]

\* logical slots -> elements of the array
Elems(k, n) ==
  CASE k \in {"particle_forces_host", "particle_forces_device",
              "particle_torques_host", "particle_torques_device"} -> 3 * n
    [] k \in {"fluid_composition_host", "fluid_composition_device"} -> LB_COMPONENTS * n
    [] OTHER -> n

\* what freshly allocated memory of kind k holds
UninitOf(k) == IF k = "particle_seeds_device" THEN UninitSeed ELSE Uninit

\* content of the buffer a pointer refers to; <<>> for nullptr
Deref(m, k) ==
  IF <<k, m.ptr[k]>> \in DOMAIN m.heap THEN m.heap[<<k, m.ptr[k]>>] ELSE <<>>

Valid(m, k) == <<k, m.ptr[k]>> \in DOMAIN m.heap

Effect(m, e) == [m EXCEPT !.acts = @ \cup {e}]

IsHost(k) == k \in HostKinds

\* the machine state an operation starts from.  Besides the program state
\* it carries what one call does: the runtime's error state (err, rc), the
\* allocations it released (freed), its effects on the accelerator and the
\* collaborators (acts) and what it hands to a collaborator (out).
Cur ==
  [gh |-> global_part_vars_host, gd |-> global_part_vars_device,
   ptr |-> ptr, heap |-> heap, energy_host |-> energy_host,
   pending |-> pending, dead |-> dead, err |-> FALSE, rc |-> TRUE,
   freed |-> {}, acts |-> {}, out |-> <<>>]

Commit(mm) ==
  \E m \in {mm} :
    /\ global_part_vars_host' = m.gh
    /\ global_part_vars_device' = m.gd
    /\ ptr' = m.ptr
    /\ heap' = m.heap
    /\ energy_host' = m.energy_host
    /\ pending' = m.pending
    /\ dead' = m.dead
    /\ UNCHANGED <<this_node, build>>

\* ------------------------------------------------ accelerator runtime
\* A runtime call returned `ok`.  err is the runtime's last-error state:
\* a failure sets it; a success leaves it (sticky, the CUDA behaviour) or
\* clears it (the return code of the last call, older HIP runtimes).
hipReturn(m, ok, sticky) ==
  [m EXCEPT !.rc = ok,
            !.err = IF ~ok THEN TRUE ELSE IF sticky THEN @ ELSE FALSE]

\* _cuda_safe_mem on the result of the call just made: errexit() when the
\* call failed or hipGetLastError() reports an earlier error (which it clears)
cuda_safe_mem(m) ==
  IF m.dead THEN m
  ELSE IF ~m.rc \/ m.err THEN Effect([m EXCEPT !.dead = TRUE], "errexit")
  ELSE m

\* the allocator returns memory that is neither live nor was released
\* earlier in the same call
FreshId(m, k) ==
  LET used == {a[2] : a \in {x \in (DOMAIN m.heap) \cup m.freed : x[1] = k}}
  IN CHOOSE i \in 1..(Cardinality(used) + 1) :
       i \notin used /\ \A j \in 1..(i - 1) : j \in used

\* hipMalloc / hipHostMalloc of `elems` elements into pointer k
hipMalloc(m, k, elems, ok, sticky) ==
  IF m.dead THEN m
  ELSE IF ok
    THEN LET id == FreshId(m, k) IN
         hipReturn([m EXCEPT !.ptr[k] = id,
                             !.heap = (<<k, id>> :> Fill(elems, UninitOf(k))) @@ @,
                             !.acts = @ \cup {IF IsHost(k) THEN "host_alloc"
                                                           ELSE "device_alloc"}],
                   TRUE, sticky)
    ELSE hipReturn(m, FALSE, sticky)

\* the buffers the asynchronous copy of copy_part_data_to_gpu reads and writes
CopyInBuffers == {"particle_data_host", "particle_data_device"}

\* hipFree / hipHostFree of pointer k; hipFree waits for the device
hipFree(m, k, sticky) ==
  IF m.dead THEN m
  ELSE IF Valid(m, k)
    THEN hipReturn([m EXCEPT !.heap = Restrict(@, DOMAIN @ \ {<<k, m.ptr[k]>>}),
                             !.freed = @ \cup {<<k, m.ptr[k]>>},
                             !.pending = IF IsHost(k) THEN @ ELSE {},
                             !.acts = @ \cup {IF IsHost(k) THEN "host_free"
                                                           ELSE "device_free"}
                                        \cup (IF k \in CopyInBuffers
                                                 /\ "hipMemcpyAsync" \in m.pending
                                               THEN {"free_in_flight"} ELSE {})],
                   TRUE, sticky)
    ELSE Effect(hipReturn(m, FALSE, sticky), "invalid_free")

\* hipMemcpyToSymbol(&global_part_vars_device, &global_part_vars_host, ...):
\* a synchronous whole-struct copy on the default queue
hipMemcpyToSymbol(m, sticky) ==
  IF m.dead THEN m
  ELSE hipReturn([m EXCEPT !.gd = m.gh,
                           !.pending = {},
                           !.acts = @ \cup {"publish"}],
                 TRUE, sticky)

\* synchronous hipMemcpy device -> host of `elems` elements, src to dst
hipMemcpyDtoH(m, dst, src, elems, sticky) ==
  IF m.dead THEN m
  ELSE IF Valid(m, dst) /\ Valid(m, src)
          /\ Len(Deref(m, dst)) >= elems /\ Len(Deref(m, src)) >= elems
    THEN hipReturn([m EXCEPT !.heap[<<dst, m.ptr[dst]>>] =
                               [j \in DOMAIN @ |->
                                  IF j <= elems THEN Deref(m, src)[j] ELSE @[j]],
                             !.pending = {},
                             !.acts = @ \cup {"d2h"}],
                   TRUE, sticky)
    ELSE hipReturn(m, FALSE, sticky)

\* an asynchronous operation enters the ordering queue
Enqueue(m, name) == [m EXCEPT !.pending = @ \cup {name}]

hipDeviceSynchronize(m) ==
  IF m.dead THEN m ELSE Effect([m EXCEPT !.pending = {}], "sync")

\* ------------------------------------------------------------ kernels
getThreadIndex(blockIdx_x, blockIdx_y, threadIdx_x, gridDim_x, blockDim_x) ==
  blockIdx_y * gridDim_x * blockDim_x + blockDim_x * blockIdx_x + threadIdx_x

\* the part_index values of the threads of a launch
PartIndices(gridDim_x, gridDim_y, blockDim_x) ==
  { getThreadIndex(bx, by, tx, gridDim_x, blockDim_x) :
      bx \in 0..(gridDim_x - 1), by \in 0..(gridDim_y - 1),
      tx \in 0..(blockDim_x - 1) }

\* blocks_per_grid_particles_x
\* variant: the block count rounded down instead of up
blocks_per_grid_particles_x_floor(n) ==
  n \div (threads_per_block_particles * blocks_per_grid_particles_y)

blocks_per_grid_particles_x(n) ==
  (n + threads_per_block_particles * blocks_per_grid_particles_y - 1)
    \div (threads_per_block_particles * blocks_per_grid_particles_y)

\* part_index of every thread, for each grid width a launch can have
LaunchIndices ==
  [gridDim_x \in 0..blocks_per_grid_particles_x(MaxParts + 1) |->
     PartIndices(gridDim_x, blocks_per_grid_particles_y,
                 threads_per_block_particles)]

\* variant: the threads do not compare part_index with number_of_particles
ActiveThreads_unguarded(m, gridDim_x) == LaunchIndices[gridDim_x]

\* the threads of a launch that pass `part_index < number_of_particles`
ActiveThreads(m, gridDim_x) ==
  { p \in 0..(m.gd.number_of_particles - 1) : p \in LaunchIndices[gridDim_x] }

\* every active thread p stores val[p] into elements width*p .. width*p+width-1
\* of the array behind pointer k
KernelStore(m, k, active, width, val) ==
  IF active = {} THEN m
  ELSE IF ~Valid(m, k) THEN Effect(m, "oob_write")
  ELSE LET buf == Deref(m, k)
           m1  == [m EXCEPT !.heap[<<k, m.ptr[k]>>] =
                     [j \in DOMAIN buf |->
                        IF (j - 1) \div width \in active
                          THEN val[(j - 1) \div width] ELSE buf[j]]]
       IN IF \E p \in active : width * p + width > Len(buf)
            THEN Effect(m1, "oob_write") ELSE m1

Zero(active) == [p \in active |-> 0]

\* variant: every particle receives the global seed itself
init_particle_force_same_seed(m, b, gridDim_x) ==
  LET act == ActiveThreads(m, gridDim_x)
      m1  == KernelStore(m, "particle_forces_device", act, 3, Zero(act))
      m2  == IF b.ROTATION
               THEN KernelStore(m1, "particle_torques_device", act, 3, Zero(act))
               ELSE m1
  IN KernelStore(m2, "particle_seeds_device", act, 1, [p \in act |-> m.gd.seed])

init_particle_force(m, b, gridDim_x) ==
  LET act == ActiveThreads(m, gridDim_x)
      m1  == KernelStore(m, "particle_forces_device", act, 3, Zero(act))
      m2  == IF b.ROTATION
               THEN KernelStore(m1, "particle_torques_device", act, 3, Zero(act))
               ELSE m1
  IN KernelStore(m2, "particle_seeds_device", act, 1,
                 [p \in act |-> U32Add(m.gd.seed, p)])

init_fluid_composition(m, gridDim_x) ==
  KernelStore(m, "fluid_composition_device", ActiveThreads(m, gridDim_x),
              LB_COMPONENTS, Zero(ActiveThreads(m, gridDim_x)))

\* variant: the torques are left as they are
reset_particle_force_forces_only(m, b, gridDim_x) ==
  KernelStore(m, "particle_forces_device", ActiveThreads(m, gridDim_x), 3,
              Zero(ActiveThreads(m, gridDim_x)))

\* variant: the reset kernel zeroes the seeds as well
reset_particle_force_reseeds(m, b, gridDim_x) ==
  LET act == ActiveThreads(m, gridDim_x)
      m1  == KernelStore(m, "particle_forces_device", act, 3, Zero(act))
      m2  == IF b.ROTATION
               THEN KernelStore(m1, "particle_torques_device", act, 3, Zero(act))
               ELSE m1
  IN KernelStore(m2, "particle_seeds_device", act, 1,
                 [p \in act |-> U32(0, 0)])

reset_particle_force(m, b, gridDim_x) ==
  LET act == ActiveThreads(m, gridDim_x)
      m1  == KernelStore(m, "particle_forces_device", act, 3, Zero(act))
  IN IF b.ROTATION
       THEN KernelStore(m1, "particle_torques_device", act, 3, Zero(act))
       ELSE m1


\* ------------------------------------------------- Device Buffer Registry
\* variant: the block that frees particle_seeds_device is missing
FreeList_without_seeds(b) ==
  << <<"particle_forces_host", TRUE, TRUE>>,
     <<"particle_data_host", TRUE, TRUE>>,
     <<"particle_forces_device", TRUE, FALSE>>,
     <<"particle_data_device", TRUE, FALSE>>,
     <<"host_v_cs", b.ENGINE, FALSE>>,
     <<"particle_torques_host", b.DIPOLES \/ b.ROTATION, FALSE>>,
     <<"fluid_composition_host", b.SHANCHEN, TRUE>>,
     <<"fluid_composition_device", b.SHANCHEN, TRUE>>,
     <<"particle_torques_device", b.ROTATION, TRUE>> >>

\* the "if (p) { free(p); p = nullptr; }" blocks in source order:
\* <<pointer, compiled in, result checked by cuda_safe_mem>>
FreeList(b) ==
  << <<"particle_forces_host", TRUE, TRUE>>,
     <<"particle_data_host", TRUE, TRUE>>,
     <<"particle_forces_device", TRUE, FALSE>>,
     <<"particle_data_device", TRUE, FALSE>>,
     <<"particle_seeds_device", TRUE, TRUE>>,
     <<"host_v_cs", b.ENGINE, FALSE>>,
     <<"particle_torques_host", b.DIPOLES \/ b.ROTATION, FALSE>>,
     <<"fluid_composition_host", b.SHANCHEN, TRUE>>,
     <<"fluid_composition_device", b.SHANCHEN, TRUE>>,
     <<"particle_torques_device", b.ROTATION, TRUE>> >>

\* the allocations in source order, same layout
AllocList(b) ==
  << <<"particle_data_host", TRUE, TRUE>>,
     <<"particle_forces_host", TRUE, TRUE>>,
     <<"host_v_cs", b.ENGINE, TRUE>>,
     <<"particle_torques_host", b.DIPOLES \/ b.ROTATION, FALSE>>,
     <<"fluid_composition_host", b.SHANCHEN, TRUE>>,
     <<"particle_forces_device", TRUE, TRUE>>,
     <<"particle_torques_device", b.ROTATION, TRUE>>,
     <<"particle_data_device", TRUE, TRUE>>,
     <<"particle_seeds_device", TRUE, TRUE>>,
     <<"fluid_composition_device", b.SHANCHEN, TRUE>> >>

\* the outcomes of the allocations of one call: none fails, or the
\* allocation at position `at` of AllocList fails.  `sticky` is the runtime's
\* last-error behaviour; it shows only after a failure that is not checked.
NoFault == [at |-> 0, sticky |-> TRUE]

Faults(b) ==
  {[at |-> i, sticky |-> s] :
     i \in {j \in DOMAIN AllocList(b) : AllocList(b)[j][2]}, s \in BOOLEAN}

\* the seed drawn and the allocation outcome of one call
Draws(b) ==
  {<<s, NoFault>> : s \in SeedDraws}
    \cup {<<U32(0, 5), f>> : f \in {g \in Faults(b) : g.sticky \/ ~AllocList(b)[g.at][3]}}

\* variant: the pointer is not reset after the free
FreeIfSet_dangling(m, e, sticky) ==
  IF m.dead \/ ~e[2] \/ m.ptr[e[1]] = 0 THEN m
  ELSE LET f == hipFree(m, e[1], sticky)
       IN IF e[3] THEN cuda_safe_mem(f) ELSE f

FreeIfSet(m, e, sticky) ==
  IF m.dead \/ ~e[2] \/ m.ptr[e[1]] = 0 THEN m
  ELSE LET f == hipFree(m, e[1], sticky)
           c == IF e[3] THEN cuda_safe_mem(f) ELSE f
       IN IF c.dead THEN c ELSE [c EXCEPT !.ptr[e[1]] = 0]

RECURSIVE RunFrees(_, _, _)
RunFrees(m, list, sticky) ==
  IF list = <<>> THEN m
  ELSE RunFrees(FreeIfSet(m, Head(list), sticky), Tail(list), sticky)

AllocOne(m, e, ok, sticky) ==
  IF m.dead \/ ~e[2] THEN m
  ELSE LET a == hipMalloc(m, e[1], Elems(e[1], m.gh.number_of_particles),
                          ok, sticky)
       IN IF e[3] THEN cuda_safe_mem(a) ELSE a

\* failAt is the position in AllocList of the allocation that fails (0: none)
RECURSIVE RunAllocs(_, _, _, _, _)
RunAllocs(m, list, i, failAt, sticky) ==
  IF list = <<>> THEN m
  ELSE RunAllocs(AllocOne(m, Head(list), i # failAt, sticky),
                 Tail(list), i + 1, failAt, sticky)

\* KERNELCALL: the launch is asynchronous
KERNELCALL(m, name) == IF m.dead THEN m ELSE Effect(Enqueue(m, name), "launch")

\* variant: the count is not compared
ReconcileGuard_any_count(m, node, n_part) ==
  /\ m.gh.communication_enabled = 1
  /\ node = 0

ReconcileGuard(m, node, n_part) ==
  /\ m.gh.number_of_particles # n_part
  /\ m.gh.communication_enabled = 1
  /\ node = 0

ReconcileBody(m, b, n_part, s, failAt, sticky) ==
  LET m1 == Effect([m EXCEPT !.gh.seed = s,
                             !.gh.number_of_particles = n_part], "seed_draw")
      m2 == cuda_safe_mem(hipMemcpyToSymbol(m1, sticky))
      m3 == RunFrees(m2, FreeList(b), sticky)
      gx == blocks_per_grid_particles_x(m3.gh.number_of_particles)
      m4 == RunAllocs(m3, AllocList(b), 1, failAt, sticky)
      m5 == IF m4.dead THEN m4
            ELSE KERNELCALL(init_particle_force(m4, b, gx), "init_particle_force")
      m6 == IF m5.dead \/ ~b.SHANCHEN THEN m5
            ELSE KERNELCALL(init_fluid_composition(m5, gx),
                            "init_fluid_composition")
  IN IF m3.dead \/ m3.gh.number_of_particles = 0 THEN m3 ELSE m6

gpu_change_number_of_part_to_comm(m, node, b, n_part, s, failAt, sticky) ==
  IF m.dead THEN m
  ELSE IF ReconcileGuard(m, node, n_part)
    THEN ReconcileBody(m, b, n_part, s, failAt, sticky)
    ELSE m

\* ------------------------------------------------------ Capability Guard
\* variant: the error is reported but the process goes on
gpu_init_particle_comm_no_exit(m, node, b, n_gpus, capable, n_part, s, failAt, sticky) ==
  LET m1 == IF node = 0 /\ m.gh.communication_enabled = 0 /\ n_gpus = 0 - 1
              THEN Effect(m, "runtime_error")
              ELSE m
      m2 == [m1 EXCEPT !.gh.communication_enabled = 1]
  IN IF m.dead THEN m
     ELSE gpu_change_number_of_part_to_comm(m2, node, b, n_part, s, failAt, sticky)

\* variant: the accelerators are looked at on every call of the owning process
gpu_init_particle_comm_recheck(m, node, b, n_gpus, capable, n_part, s, failAt, sticky) ==
  LET m1 == IF node = 0
              THEN IF n_gpus = 0 - 1
                     THEN Effect(Effect([m EXCEPT !.dead = TRUE], "runtime_error"),
                                 "errexit")
                   ELSE IF n_gpus > 1
                     THEN IF ~capable
                            THEN Effect(Effect(m, "warn_multi_gpu"),
                                        "warn_not_capable")
                            ELSE Effect(m, "warn_multi_gpu")
                     ELSE m
              ELSE m
      m2 == IF m1.dead THEN m1 ELSE [m1 EXCEPT !.gh.communication_enabled = 1]
  IN IF m.dead THEN m
     ELSE gpu_change_number_of_part_to_comm(m2, node, b, n_part, s, failAt, sticky)

\* n_gpus is cuda_get_n_gpus(), capable is cuda_check_gpu(0) == ES_OK
gpu_init_particle_comm(m, node, b, n_gpus, capable, n_part, s, failAt, sticky) ==
  LET m1 == IF node = 0 /\ m.gh.communication_enabled = 0
              THEN IF n_gpus = 0 - 1
                     THEN Effect(Effect([m EXCEPT !.dead = TRUE], "runtime_error"),
                                 "errexit")
                   ELSE IF n_gpus > 1
                     THEN IF ~capable
                            THEN Effect(Effect(m, "warn_multi_gpu"),
                                        "warn_not_capable")
                            ELSE Effect(m, "warn_multi_gpu")
                     ELSE m
              ELSE m
      m2 == IF m1.dead THEN m1 ELSE [m1 EXCEPT !.gh.communication_enabled = 1]
  IN IF m.dead THEN m
     ELSE gpu_change_number_of_part_to_comm(m2, node, b, n_part, s, failAt, sticky)


\* what cuda_get_n_gpus() and cuda_check_gpu(0) == ES_OK can answer
GpuAnswers ==
  {[n_gpus |-> 0 - 1, capable |-> FALSE], [n_gpus |-> 1, capable |-> TRUE],
   [n_gpus |-> 2, capable |-> TRUE], [n_gpus |-> 2, capable |-> FALSE]}

\* --------------------------------------------------- Transfer Coordinator
\* the records the gather collaborator delivers: generation pv of particle p
ParticleRecord(pv, p) == 2 * p + pv

PartGens == {1, 2}

\* cuda_mpi_get_particles(particles, particle_data_host): on the owning
\* process the gathered records are written to the staging buffer; the
\* write races with a copy out of that buffer which is still in flight
cuda_mpi_get_particles(m, node, pv) ==
  LET k  == "particle_data_host"
      m0 == Effect(m, "gather")
      m1 == IF node = 0 /\ "hipMemcpyAsync" \in m.pending
              THEN Effect(m0, "staging_race") ELSE m0
  IN IF node # 0 THEN m1
     ELSE IF ~Valid(m1, k) \/ Len(Deref(m1, k)) < m1.gh.number_of_particles
       THEN Effect(m1, "oob_write")
     ELSE [m1 EXCEPT !.heap[<<k, m1.ptr[k]>>] =
             [j \in DOMAIN @ |->
                IF j <= m1.gh.number_of_particles
                  THEN ParticleRecord(pv, j - 1) ELSE @[j]]]

\* variant: the copy is not ordered before the operations enqueued after it
hipMemcpyAsyncHtoD_unordered(m, dst, src, elems) ==
  IF Valid(m, dst) /\ Valid(m, src)
     /\ Len(Deref(m, dst)) >= elems /\ Len(Deref(m, src)) >= elems
    THEN Effect(Enqueue(m, "hipMemcpyAsync"), "h2d")
    ELSE Effect(m, "invalid_copy")

\* hipMemcpyAsync(dst, src, elems, hipMemcpyHostToDevice, stream[0]);
\* its result is not looked at
hipMemcpyAsyncHtoD(m, dst, src, elems) ==
  IF Valid(m, dst) /\ Valid(m, src)
     /\ Len(Deref(m, dst)) >= elems /\ Len(Deref(m, src)) >= elems
    THEN Effect(Enqueue([m EXCEPT !.heap[<<dst, m.ptr[dst]>>] =
                           [j \in DOMAIN @ |->
                              IF j <= elems THEN Deref(m, src)[j] ELSE @[j]]],
                        "hipMemcpyAsync"),
                "h2d")
    ELSE Effect(m, "invalid_copy")

copy_part_data_to_gpu(m, node, pv) ==
  IF m.gh.communication_enabled = 1 /\ m.gh.number_of_particles # 0
    THEN LET m1 == cuda_mpi_get_particles(m, node, pv)
         IN IF node = 0
              THEN hipMemcpyAsyncHtoD(m1, "particle_data_device",
                                      "particle_data_host",
                                      m1.gh.number_of_particles)
              ELSE m1
    ELSE m

\* cuda_mpi_send_forces and cuda_mpi_send_composition: what they are handed
cuda_mpi_send_forces(m) ==
  IF m.dead THEN m
  ELSE Effect([m EXCEPT !.out = [forces |-> Deref(m, "particle_forces_host"),
                                 torques |-> Deref(m, "particle_torques_host"),
                                 composition |-> <<>>]],
              "scatter")

cuda_mpi_send_composition(m) ==
  IF m.dead THEN m
  ELSE Effect([m EXCEPT !.out.composition = Deref(m, "fluid_composition_host")],
              "scatter_composition")

\* variant: the host waits for the device before it launches the reset kernel
StageOutDevice_sync_first(m, b, sticky) ==
  LET n  == m.gh.number_of_particles
      m1 == cuda_safe_mem(hipMemcpyDtoH(m, "particle_forces_host",
                                        "particle_forces_device", 3 * n, sticky))
      m2 == IF b.ROTATION
              THEN cuda_safe_mem(hipMemcpyDtoH(m1, "particle_torques_host",
                                               "particle_torques_device",
                                               n * 3, sticky))
              ELSE m1
      m3 == IF b.SHANCHEN
              THEN cuda_safe_mem(hipMemcpyDtoH(m2, "fluid_composition_host",
                                               "fluid_composition_device",
                                               LB_COMPONENTS * n, sticky))
              ELSE m2
      m4 == hipDeviceSynchronize(m3)
  IN IF m4.dead THEN m4
     ELSE KERNELCALL(reset_particle_force(m4, b, blocks_per_grid_particles_x(n)),
                     "reset_particle_force")

\* variant: the reset kernel runs before the copies
StageOutDevice_reset_first(m, b, sticky) ==
  LET n  == m.gh.number_of_particles
      m0 == KERNELCALL(reset_particle_force(m, b, blocks_per_grid_particles_x(n)),
                       "reset_particle_force")
      m1 == cuda_safe_mem(hipMemcpyDtoH(m0, "particle_forces_host",
                                        "particle_forces_device", 3 * n, sticky))
      m2 == IF b.ROTATION
              THEN cuda_safe_mem(hipMemcpyDtoH(m1, "particle_torques_host",
                                               "particle_torques_device",
                                               n * 3, sticky))
              ELSE m1
      m3 == IF b.SHANCHEN
              THEN cuda_safe_mem(hipMemcpyDtoH(m2, "fluid_composition_host",
                                               "fluid_composition_device",
                                               LB_COMPONENTS * n, sticky))
              ELSE m2
  IN hipDeviceSynchronize(m3)

StageOutDevice(m, b, sticky) ==
  LET n  == m.gh.number_of_particles
      m1 == cuda_safe_mem(hipMemcpyDtoH(m, "particle_forces_host",
                                        "particle_forces_device", 3 * n, sticky))
      m2 == IF b.ROTATION
              THEN cuda_safe_mem(hipMemcpyDtoH(m1, "particle_torques_host",
                                               "particle_torques_device",
                                               n * 3, sticky))
              ELSE m1
      m3 == IF b.SHANCHEN
              THEN cuda_safe_mem(hipMemcpyDtoH(m2, "fluid_composition_host",
                                               "fluid_composition_device",
                                               LB_COMPONENTS * n, sticky))
              ELSE m2
      m4 == IF m3.dead THEN m3
            ELSE KERNELCALL(reset_particle_force(m3, b,
                              blocks_per_grid_particles_x(n)),
                            "reset_particle_force")
  IN hipDeviceSynchronize(m4)

copy_forces_from_GPU(m, node, b, sticky) ==
  IF m.gh.communication_enabled = 1 /\ m.gh.number_of_particles # 0
    THEN LET m1 == IF node = 0 THEN StageOutDevice(m, b, sticky) ELSE m
             m2 == cuda_mpi_send_forces(m1)
         IN IF b.SHANCHEN THEN cuda_mpi_send_composition(m2) ELSE m2
    ELSE m

\* variant: the accumulator keeps its content
hipMemsetEnergy_keep(m, sticky) ==
  IF m.dead THEN m
  ELSE IF Valid(m, "energy_device")
    THEN hipReturn([m EXCEPT !.acts = @ \cup {"memset"}], TRUE, sticky)
    ELSE hipReturn(m, FALSE, sticky)

\* hipMemset(energy_device, 0, sizeof(CUDA_energy))
hipMemsetEnergy(m, sticky) ==
  IF m.dead THEN m
  ELSE IF Valid(m, "energy_device")
    THEN hipReturn([m EXCEPT !.heap[<<"energy_device", m.ptr["energy_device"]>>] =
                               [j \in DOMAIN @ |-> 0],
                             !.acts = @ \cup {"memset"}],
                   TRUE, sticky)
    ELSE hipReturn(m, FALSE, sticky)

\* variant: the accumulator is allocated on every call
clear_energy_on_GPU_always_alloc(m, ok, sticky) ==
  IF m.gh.communication_enabled = 0 THEN m
  ELSE cuda_safe_mem(hipMemsetEnergy(
         cuda_safe_mem(hipMalloc(m, "energy_device", 1, ok, sticky)), sticky))

clear_energy_on_GPU(m, ok, sticky) ==
  IF m.gh.communication_enabled = 0 THEN m
  ELSE LET m1 == IF m.ptr["energy_device"] = 0
                   THEN cuda_safe_mem(hipMalloc(m, "energy_device", 1, ok, sticky))
                   ELSE m
       IN cuda_safe_mem(hipMemsetEnergy(m1, sticky))

\* hipMemcpy(&energy_host, energy_device, sizeof(CUDA_energy), DeviceToHost)
hipMemcpyEnergy(m, sticky) ==
  IF m.dead THEN m
  ELSE IF Valid(m, "energy_device")
    THEN hipReturn([m EXCEPT !.energy_host = Deref(m, "energy_device")[1],
                             !.pending = {},
                             !.acts = @ \cup {"d2h"}],
                   TRUE, sticky)
    ELSE hipReturn(m, FALSE, sticky)

copy_CUDA_energy_to_energy(m) ==
  IF m.dead THEN m
  ELSE Effect([m EXCEPT !.out = <<m.energy_host>>], "energy_aggregate")

\* variant: the communication flag is not tested
copy_energy_from_GPU_ungated(m, sticky) ==
  IF m.gh.number_of_particles = 0 THEN m
  ELSE copy_CUDA_energy_to_energy(cuda_safe_mem(hipMemcpyEnergy(m, sticky)))

copy_energy_from_GPU(m, sticky) ==
  IF m.gh.communication_enabled = 0 \/ m.gh.number_of_particles = 0 THEN m
  ELSE copy_CUDA_energy_to_energy(cuda_safe_mem(hipMemcpyEnergy(m, sticky)))

\* ------------------------------------------- external kernels (collaborators)
\* what a force kernel leaves in an accumulator of `elems` floats
ForcePatterns(elems) == { [j \in 1..elems |-> j + 1] }

StoreAll(m, k, w) ==
  IF Valid(m, k) THEN [m EXCEPT !.heap[<<k, m.ptr[k]>>] = w] ELSE m


\* ------------------------------------------------------------ properties
\* a machine state as the next call finds it
Again(m) ==
  [m EXCEPT !.err = FALSE, !.rc = TRUE, !.freed = {}, !.acts = {}, !.out = <<>>]

\* the program state of two machine states agrees
Same(a, b) ==
  /\ a.gh = b.gh
  /\ a.gd = b.gd
  /\ a.ptr = b.ptr
  /\ a.heap = b.heap
  /\ a.energy_host = b.energy_host
  /\ a.pending = b.pending
  /\ a.dead = b.dead

\* the call that led from a to r did nothing
NoOp(a, r) == r.acts = {} /\ r.out = <<>> /\ Same(a, r)

\* reconcile(n) called in machine state m, with seed and allocation outcome d
Reconciled(m, n, d) ==
  gpu_change_number_of_part_to_comm(Again(m), this_node, build, n,
                                    d[1], d[2].at, d[2].sticky)

\* the count-sized buffers of a configuration
CompiledKinds(b) ==
  {AllocList(b)[j][1] : j \in {i \in DOMAIN AllocList(b) : AllocList(b)[i][2]}}

AllZero(buf) == \A j \in DOMAIN buf : buf[j] = 0

\* what a call does to the accelerator
AcceleratorActs ==
  {"host_alloc", "device_alloc", "host_free", "device_free", "publish",
   "h2d", "d2h", "memset", "launch", "sync"}

Owner == this_node = 0

Enabled == global_part_vars_host.communication_enabled = 1

Count == global_part_vars_host.number_of_particles

\* C1: reconcile with the registry's current count does nothing (no
\* allocation, free, seed draw, publish or launch; handles and contents
\* unchanged), and a second reconcile(n) right after a reconcile(n) that
\* returned does nothing.
C1_Idempotence ==
  ~dead =>
    \A n \in 0..MaxParts, d \in Draws(build) :
      LET a == Reconciled(Cur, n, d)
      IN /\ n = Count => NoOp(Cur, a)
         /\ ~a.dead => \A d2 \in Draws(build) : NoOp(a, Reconciled(a, n, d2))

\* the registry holds MaxParts particles after a reallocation
C1_Witness ==
  /\ ~dead /\ Owner /\ Enabled
  /\ Count = MaxParts
  /\ Valid(Cur, "particle_seeds_device")
  /\ "init_particle_force" \in pending

\* C2: on the owning process with communication enabled, a reconcile(n2)
\* that follows a reconcile(n1), n1 # n2, and returns leaves every
\* count-sized buffer of the configuration with exactly n2 slots, and no
\* buffer of the n1 epoch is live or reachable through a handle.
C2_ResizeCorrectness ==
  (~dead /\ Owner /\ Enabled) =>
    \A n2 \in (0..MaxParts) \ {Count}, d \in Draws(build) :
      LET b == Reconciled(Cur, n2, d)
      IN ~b.dead =>
           /\ \A k \in CompiledKinds(build) :
                /\ Len(Deref(b, k)) = Elems(k, n2)
                /\ n2 > 0 => Valid(b, k)
                /\ <<k, b.ptr[k]>> \notin DOMAIN heap
           /\ \A a \in DOMAIN heap : a[1] \in CountKinds => a \notin DOMAIN b.heap

\* C3: after a reconcile(n) that reallocates with drawn seed s, the device
\* seed of particle i is s + i in unsigned 32-bit arithmetic for 0 <= i < n,
\* the seeds are pairwise distinct, and they stay so for the whole epoch.
C3_SeedDeterminism ==
  /\ ~dead =>
       \A n \in 1..MaxParts, d \in Draws(build) :
         LET b     == Reconciled(Cur, n, d)
             seeds == Deref(b, "particle_seeds_device")
         IN (ReconcileGuard(Cur, this_node, n) /\ ~b.dead) =>
              /\ Len(seeds) = n
              /\ \A i \in 0..(n - 1) : seeds[i + 1] = U32Add(d[1], i)
              /\ \A i, j \in 1..n : seeds[i] = seeds[j] => i = j
  /\ (~dead /\ Owner /\ Enabled /\ Count > 0) =>
       LET seeds == Deref(Cur, "particle_seeds_device")
       IN /\ Len(seeds) = Count
          /\ \A i \in 0..(Count - 1) :
               seeds[i + 1] = U32Add(global_part_vars_host.seed, i)

\* the seeds of an epoch whose drawn seed is 2^32 - 1: the second one wrapped
C3_Witness ==
  /\ ~dead /\ Owner /\ Count = 2
  /\ global_part_vars_host.seed = U32(Half - 1, Half - 1)
  /\ Deref(Cur, "particle_seeds_device") = <<U32(Half - 1, Half - 1), U32(0, 0)>>

\* particle counts at which the launch grid has one, two, three and four
\* columns of blocks
GridCounts == {1, 2, 255, 256, 257, 512, 513, 769}

GridCovers ==
  \A n \in GridCounts :
    \A p \in 0..(n - 1) :
      p \in PartIndices(blocks_per_grid_particles_x(n),
                        blocks_per_grid_particles_y, threads_per_block_particles)

\* C4: right after a reconcile(n), n > 0, that reallocates, each of the 3n
\* device force components reads 0.0, and so does each torque component
\* (ROTATION) and each fluid-composition weight (SHANCHEN); the grid of
\* 64-thread blocks in 4 rows covers every particle index below n.
C4_ZeroOnInit ==
  /\ GridCovers
  /\ ~dead =>
       \A n \in 1..MaxParts, d \in Draws(build) :
         LET b == Reconciled(Cur, n, d)
         IN (ReconcileGuard(Cur, this_node, n) /\ ~b.dead) =>
              /\ Deref(b, "particle_forces_device") = Fill(3 * n, 0)
              /\ build.ROTATION =>
                   Deref(b, "particle_torques_device") = Fill(3 * n, 0)
              /\ build.SHANCHEN =>
                   Deref(b, "fluid_composition_device") = Fill(LB_COMPONENTS * n, 0)
              /\ \A p \in 0..(n - 1) :
                   p \in LaunchIndices[blocks_per_grid_particles_x(n)]

\* right after a reallocation with every optional feature compiled in
C4_Witness ==
  /\ ~dead /\ Owner /\ Count = MaxParts
  /\ build.ROTATION /\ build.SHANCHEN
  /\ {"init_particle_force", "init_fluid_composition"} \subseteq pending
  /\ Deref(Cur, "particle_torques_device") = Fill(3 * MaxParts, 0)
  /\ Deref(Cur, "fluid_composition_device") = Fill(LB_COMPONENTS * MaxParts, 0)

\* a stage_out called in the current state
StagedOut == copy_forces_from_GPU(Cur, this_node, build, TRUE)

\* C5: after a stage_out that returns on the owning process with
\* communication enabled and particles present, every device force and
\* torque component reads 0.0, whatever the force kernels wrote.
C5_ZeroOnReset ==
  (~dead /\ Owner /\ Enabled /\ Count > 0 /\ ~StagedOut.dead) =>
    /\ Deref(StagedOut, "particle_forces_device") = Fill(3 * Count, 0)
    /\ AllZero(Deref(StagedOut, "particle_torques_device"))
    /\ build.ROTATION =>
         Deref(StagedOut, "particle_torques_device") = Fill(3 * Count, 0)
    /\ StagedOut.pending = {}

\* a force kernel has written forces and torques and stage_out is due
C5_Witness ==
  /\ ~dead /\ Owner /\ Enabled /\ Count = MaxParts
  /\ build.ROTATION
  /\ ~AllZero(Deref(Cur, "particle_forces_device"))
  /\ ~AllZero(Deref(Cur, "particle_torques_device"))
  /\ ~StagedOut.dead

\* C6: while communication is disabled, stage_in, stage_out and
\* collect_energy do nothing: no allocation, copy, launch or collaborator
\* call, for every particle count.
C6_Gating ==
  (~dead /\ ~Enabled) =>
    /\ \A pv \in PartGens : NoOp(Cur, copy_part_data_to_gpu(Cur, this_node, pv))
    /\ NoOp(Cur, StagedOut)
    /\ NoOp(Cur, copy_energy_from_GPU(Cur, TRUE))

\* communication disabled while the struct names a nonzero particle count
C6_Witness == ~dead /\ ~Enabled /\ Count > 0

\* C7: on the owning process, reconcile(0) leaves every count-sized handle
\* null and no count-sized buffer live, and as long as the count stays 0
\* stage_in and stage_out do nothing.
C7_ZeroParticles ==
  (~dead /\ Owner) =>
    /\ \A d \in Draws(build) :
         LET b == Reconciled(Cur, 0, d)
         IN ~b.dead =>
              /\ b.gh.number_of_particles = 0
              /\ \A k \in CountKinds : b.ptr[k] = 0
              /\ \A a \in DOMAIN b.heap : a[1] \notin CountKinds
    /\ Count = 0 =>
         /\ \A k \in CountKinds : ptr[k] = 0
         /\ \A a \in DOMAIN heap : a[1] \notin CountKinds
         /\ \A pv \in PartGens :
              NoOp(Cur, copy_part_data_to_gpu(Cur, this_node, pv))
         /\ NoOp(Cur, StagedOut)

\* buffers of a nonzero count are allocated and reconcile(0) is due
C7_Witness ==
  /\ ~dead /\ Owner /\ Enabled /\ Count > 0
  /\ \A k \in CompiledKinds(build) : Valid(Cur, k)
  /\ build.SHANCHEN

\* clear_energy() and then collect_energy(), called in the current state
ClearedThenCollected(ok) ==
  copy_energy_from_GPU(Again(clear_energy_on_GPU(Cur, ok, TRUE)), TRUE)

\* C8 as claimed: clear_energy() followed at once by collect_energy() hands
\* an all-zero energy snapshot to the energy aggregator.
C8_EnergyRoundTrip ==
  ~dead =>
    \A ok \in BOOLEAN :
      LET b == ClearedThenCollected(ok)
      IN ~b.dead => ("energy_aggregate" \in b.acts /\ b.out = <<0>>)

\* C8 amended: with communication enabled and particles present the
\* snapshot is all zero and handed over; otherwise collect_energy does
\* nothing, hands nothing over and energy_host keeps its value.
C8_EnergyRoundTripGated ==
  ~dead =>
    \A ok \in BOOLEAN :
      LET b == ClearedThenCollected(ok)
      IN ~b.dead =>
           IF Enabled /\ Count # 0
             THEN /\ "energy_aggregate" \in b.acts
                  /\ b.out = <<0>>
                  /\ b.energy_host = 0
             ELSE /\ "energy_aggregate" \notin b.acts
                  /\ "d2h" \notin b.acts
                  /\ b.out = <<>>
                  /\ b.energy_host = energy_host

\* an energy kernel has written the accumulator and an older snapshot is
\* nonzero: the round trip has to overwrite both
C8_Witness ==
  /\ ~dead /\ Enabled /\ Count > 0
  /\ Deref(Cur, "energy_device") = <<1>>
  /\ energy_host = 1

\* C9: a stage_out on the owning process with communication enabled and
\* particles present hands the scattering collaborator a force buffer that
\* holds, in all 3n slots, what the device accumulator held when the call
\* began, not the zeros of the reset kernel.
C9_CopyOutPreReset ==
  (~dead /\ Owner /\ Enabled /\ Count > 0 /\ ~StagedOut.dead) =>
    /\ "scatter" \in StagedOut.acts
    /\ Len(StagedOut.out.forces) = 3 * Count
    /\ StagedOut.out.forces = Deref(Cur, "particle_forces_device")

\* the accumulator holds what a force kernel wrote, the staging buffer
\* something else
C9_Witness ==
  /\ ~dead /\ Owner /\ Enabled /\ Count = MaxParts
  /\ Deref(Cur, "particle_forces_device") = [j \in 1..(3 * MaxParts) |-> j + 1]
  /\ Deref(Cur, "particle_forces_host") = Fill(3 * MaxParts, 0)

\* C10: on a process other than the owner, reconcile, stage_in, stage_out,
\* clear_energy and collect_energy perform no accelerator action.
C10_OwnerOnly ==
  (~dead /\ ~Owner) =>
    /\ \A n \in 0..MaxParts, d \in Draws(build) :
         Reconciled(Cur, n, d).acts \cap AcceleratorActs = {}
    /\ \A pv \in PartGens :
         copy_part_data_to_gpu(Cur, this_node, pv).acts \cap AcceleratorActs = {}
    /\ StagedOut.acts \cap AcceleratorActs = {}
    /\ \A ok \in BOOLEAN :
         clear_energy_on_GPU(Cur, ok, TRUE).acts \cap AcceleratorActs = {}
    /\ copy_energy_from_GPU(Cur, TRUE).acts \cap AcceleratorActs = {}


\* enable_communication called in the current state: the accelerators answer
\* g, the particle count is n, seed and allocation outcome are d
EnabledWith(g, n, d) ==
  gpu_init_particle_comm(Cur, this_node, build, g.n_gpus, g.capable, n,
                         d[1], d[2].at, d[2].sticky)

\* the answers the call consumes in the current state
Answers ==
  IF Owner /\ ~Enabled THEN GpuAnswers ELSE {[n_gpus |-> 1, capable |-> TRUE]}

NoAccelerator == {g \in GpuAnswers : g.n_gpus = 0 - 1}

\* C11: enable_communication on the owning process with no usable
\* accelerator reports the error and terminates the process; the flag stays
\* false and nothing is allocated, neither by that call nor afterwards.
C11_NoAcceleratorFatal ==
  /\ (~dead /\ Owner /\ ~Enabled) =>
       \A g \in NoAccelerator, n \in 0..MaxParts, d \in Draws(build) :
         LET r == EnabledWith(g, n, d)
         IN /\ r.dead
            /\ {"runtime_error", "errexit"} \subseteq r.acts
            /\ r.acts \cap AcceleratorActs = {}
            /\ r.gh = global_part_vars_host
            /\ r.heap = heap /\ r.ptr = ptr
  /\ (dead /\ Owner /\ ~Enabled) =>
       /\ heap = <<>>
       /\ \A k \in Kinds : ptr[k] = 0

\* the owning process has terminated in enable_communication
C11_Witness ==
  /\ dead /\ Owner /\ ~Enabled
  /\ heap = <<>>

\* C12: when enable_communication returns on the owning process with
\* external count k, the flag is true, number_of_particles is k and, for
\* k > 0, every count-sized buffer of the configuration has k slots, the
\* seeds are seed + i and a fresh accumulator reads zero.
C12_EnableReconciles ==
  (~dead /\ Owner) =>
    \A g \in Answers, k \in 0..MaxParts, d \in Draws(build) :
      LET r == EnabledWith(g, k, d)
      IN ~r.dead =>
           /\ r.gh.communication_enabled = 1
           /\ r.gh.number_of_particles = k
           /\ k > 0 =>
                /\ \A c \in CompiledKinds(build) :
                     Valid(r, c) /\ Len(Deref(r, c)) = Elems(c, k)
                /\ \A i \in 0..(k - 1) :
                     Deref(r, "particle_seeds_device")[i + 1] = U32Add(r.gh.seed, i)
                /\ k # Count =>
                     /\ Deref(r, "particle_forces_device") = Fill(3 * k, 0)
                     /\ build.ROTATION =>
                          Deref(r, "particle_torques_device") = Fill(3 * k, 0)
                     /\ build.SHANCHEN =>
                          Deref(r, "fluid_composition_device")
                            = Fill(LB_COMPONENTS * k, 0)

\* C13: enable_communication writes the flag only on the owning process,
\* and on the owning process the flag is true before number_of_particles or
\* seed leave their initial values.
C13_SetOnceByOwner ==
  /\ (~dead /\ ~Owner) =>
       \A g \in Answers, n \in 0..MaxParts, d \in Draws(build) :
         EnabledWith(g, n, d).gh.communication_enabled
           = global_part_vars_host.communication_enabled
  /\ (Owner /\ (Count # 0 \/ global_part_vars_host.seed # U32(0, 0))) => Enabled

\* C14: a reconcile in which an allocation fails terminates the process
\* after a diagnostic, and the owning process is never alive with
\* number_of_particles > 0 and a count-sized buffer missing.
C14_AllocationFailureFatal ==
  /\ (~dead /\ Owner /\ Enabled) =>
       \A n \in (1..MaxParts) \ {Count}, d \in Draws(build) :
         d[2].at # 0 =>
           LET r == Reconciled(Cur, n, d)
           IN r.dead /\ "errexit" \in r.acts
  /\ (~dead /\ Owner /\ Count > 0) =>
       \A k \in CompiledKinds(build) : Valid(Cur, k)

\* C15: stage_out on the owning process copies forces, torques and fluid
\* composition to the host, then launches the reset kernel, then waits for
\* the device, then hands the host buffers to the scattering collaborator:
\* the buffers handed over hold what the accumulators held before the
\* reset, the accumulators read zero, and nothing is in flight.
C15_StageOutOrder ==
  (~dead /\ Owner /\ Enabled /\ Count > 0 /\ ~StagedOut.dead) =>
    /\ {"d2h", "launch", "sync", "scatter"} \subseteq StagedOut.acts
    /\ StagedOut.out.forces = Deref(Cur, "particle_forces_device")
    /\ Deref(StagedOut, "particle_forces_host") = Deref(Cur, "particle_forces_device")
    /\ build.ROTATION =>
         /\ StagedOut.out.torques = Deref(Cur, "particle_torques_device")
         /\ Deref(StagedOut, "particle_torques_device") = Fill(3 * Count, 0)
    /\ build.SHANCHEN =>
         /\ "scatter_composition" \in StagedOut.acts
         /\ StagedOut.out.composition = Deref(Cur, "fluid_composition_device")
    /\ Deref(StagedOut, "particle_forces_device") = Fill(3 * Count, 0)
    /\ StagedOut.pending = {}

\* stage_out is due with work of the step still queued and every optional
\* buffer compiled in
C15_Witness ==
  /\ ~dead /\ Owner /\ Enabled /\ Count = MaxParts
  /\ build.ROTATION /\ build.SHANCHEN
  /\ "force_kernel" \in pending
  /\ ~StagedOut.dead

\* the copy-out of the forces, first step of stage_out
ForcesCopiedOut ==
  hipMemcpyDtoH(Cur, "particle_forces_host", "particle_forces_device",
                3 * Count, TRUE)

\* C16: the copy of stage_in is in the ordering queue when stage_in returns
\* and whatever is enqueued after it finds the gathered records in the
\* device buffer; the copy-out of stage_out finds what the force kernels
\* enqueued before it wrote, and none of them is still in flight after it.
C16_StepOrdering ==
  /\ (~dead /\ Owner /\ Enabled /\ Count > 0) =>
       \A pv \in PartGens :
         LET r == copy_part_data_to_gpu(Cur, this_node, pv)
         IN /\ "h2d" \in r.acts
            /\ "hipMemcpyAsync" \in r.pending
            /\ Deref(r, "particle_data_device")
                 = [j \in 1..Count |-> ParticleRecord(pv, j - 1)]
  /\ (~dead /\ Owner /\ Enabled /\ Count > 0 /\ "force_kernel" \in pending) =>
       /\ Deref(Cur, "particle_forces_device") \in ForcePatterns(3 * Count)
       /\ ForcesCopiedOut.pending = {}
       /\ Deref(ForcesCopiedOut, "particle_forces_host")
            \in ForcePatterns(3 * Count)
       /\ ~StagedOut.dead => StagedOut.out.forces \in ForcePatterns(3 * Count)

\* a step in flight: the copy-in and a force kernel are queued, the device
\* buffer holds the records gathered last
C16_Witness ==
  /\ ~dead /\ Owner /\ Enabled /\ Count = MaxParts
  /\ {"hipMemcpyAsync", "force_kernel"} \subseteq pending
  /\ Deref(Cur, "particle_data_device")
       = [j \in 1..MaxParts |-> ParticleRecord(2, j - 1)]

\* C17: no gather rewrites the particle staging buffer, and no reconcile
\* frees it or the device particle-record buffer, while the asynchronous
\* copy of an earlier stage_in may still be in flight.
C17_NoStagingRace ==
  ~dead =>
    /\ \A pv \in PartGens :
         "staging_race" \notin copy_part_data_to_gpu(Cur, this_node, pv).acts
    /\ \A n \in 0..MaxParts, d \in Draws(build) :
         "free_in_flight" \notin Reconciled(Cur, n, d).acts

Warnings == {"warn_multi_gpu", "warn_not_capable"}

\* what enable_communication warns about in the current state
WarnsAsClaimed ==
  ~dead =>
    \A g \in GpuAnswers, n \in 0..MaxParts :
      LET r == EnabledWith(g, n, <<U32(0, 5), NoFault>>)
      IN IF Owner /\ ~Enabled /\ g.n_gpus > 1
           THEN /\ r.acts \cap Warnings =
                     (IF g.capable THEN {"warn_multi_gpu"} ELSE Warnings)
                /\ ~r.dead
                /\ "errexit" \notin r.acts
                /\ r.gh.communication_enabled = 1
           ELSE r.acts \cap Warnings = {}

\* C18: with more than one accelerator visible the first
\* enable_communication of the owning process warns (a second time if
\* device 0 is not capable) and still enables communication; the flag then
\* stays set and no later call warns again.
C18_WarningsOnce ==
  /\ [] WarnsAsClaimed
  /\ [][(Owner /\ Enabled) => global_part_vars_host'.communication_enabled = 1]_vars

\* communication enabled on the owning process, a repeated
\* enable_communication is due
C18_Witness ==
  /\ ~dead /\ Owner /\ Enabled
  /\ Count > 0
  /\ EnabledWith([n_gpus |-> 2, capable |-> FALSE], Count,
                 <<U32(0, 5), NoFault>>).acts = {}

\* C19 as claimed: after any clear_energy call that returns the energy
\* accumulator exists and is all zero, and it is allocated at most once.
C19_LazyEnergy ==
  ~dead =>
    \A ok \in BOOLEAN :
      LET r == clear_energy_on_GPU(Cur, ok, TRUE)
      IN ~r.dead =>
           /\ Valid(r, "energy_device")
           /\ Deref(r, "energy_device") = <<0>>
           /\ \A a \in DOMAIN r.heap : a[1] = "energy_device" => a[2] = 1

\* C19 amended: with communication enabled, after a clear_energy call that
\* returns the accumulator exists and is all zero, an existing accumulator
\* is reused and at most one is ever allocated; with communication disabled
\* clear_energy does nothing.
C19_LazyEnergyGated ==
  ~dead =>
    \A ok \in BOOLEAN :
      LET r == clear_energy_on_GPU(Cur, ok, TRUE)
      IN ~r.dead =>
           IF Enabled
             THEN /\ Valid(r, "energy_device")
                  /\ Deref(r, "energy_device") = <<0>>
                  /\ "memset" \in r.acts
                  /\ Valid(Cur, "energy_device") <=>  "device_alloc" \notin r.acts
                  /\ Valid(Cur, "energy_device") =>
                       r.ptr["energy_device"] = ptr["energy_device"]
                  /\ \A a \in DOMAIN r.heap : a[1] = "energy_device" => a[2] = 1
             ELSE NoOp(Cur, r)

\* the accumulator exists and an energy kernel has written it
C19_Witness ==
  /\ ~dead /\ Enabled
  /\ Deref(Cur, "energy_device") = <<1>>

\* C20: every live allocation is the one its handle names, every handle is
\* empty or names a live allocation, and reconcile never frees anything
\* else; so there is at most one live allocation per buffer kind, none is
\* unreachable and none is freed twice.
C20_NoDoubleFreeNoLeak ==
  ~dead =>
    /\ \A a \in DOMAIN heap : ptr[a[1]] = a[2]
    /\ \A k \in Kinds : ptr[k] # 0 => <<k, ptr[k]>> \in DOMAIN heap
    /\ \A n \in 0..MaxParts, d \in Draws(build) :
         LET r == Reconciled(Cur, n, d)
         IN /\ "invalid_free" \notin r.acts
            /\ ~r.dead =>
                 /\ \A a \in DOMAIN r.heap : r.ptr[a[1]] = a[2]
                 /\ \A a \in DOMAIN heap :
                      a[1] \in CountKinds /\ ReconcileGuard(Cur, this_node, n)
                        => a \in r.freed

\* buffers of a second allocation epoch are live
C20_Witness ==
  /\ ~dead /\ Owner /\ Count > 0
  /\ ptr["particle_seeds_device"] = 2
  /\ ptr["particle_data_host"] = 2


\* what belongs to a seed epoch: seed and count in both structs, the
\* per-particle seeds and the device fluid-composition weights
SeedEpoch(m) ==
  <<m.gh.seed, m.gh.number_of_particles, m.gd.seed, m.gd.number_of_particles,
    m.ptr["particle_seeds_device"], Deref(m, "particle_seeds_device"),
    m.ptr["fluid_composition_device"], Deref(m, "fluid_composition_device")>>

\* C21: stage_in, stage_out with its reset kernel, clear_energy and
\* collect_energy leave the global seed, number_of_particles, every
\* per-particle seed and every device fluid-composition weight as they
\* are; a reconcile, alone or inside enable_communication, changes any of
\* them only when its count differs from the current count.
C21_SeedEpochFrame ==
  ~dead =>
    /\ \A pv \in PartGens :
         SeedEpoch(copy_part_data_to_gpu(Cur, this_node, pv)) = SeedEpoch(Cur)
    /\ SeedEpoch(StagedOut) = SeedEpoch(Cur)
    /\ \A ok \in BOOLEAN :
         SeedEpoch(clear_energy_on_GPU(Cur, ok, TRUE)) = SeedEpoch(Cur)
    /\ SeedEpoch(copy_energy_from_GPU(Cur, TRUE)) = SeedEpoch(Cur)
    /\ \A n \in 0..MaxParts, d \in Draws(build) :
         /\ ~ReconcileGuard(Cur, this_node, n)
              => SeedEpoch(Reconciled(Cur, n, d)) = SeedEpoch(Cur)
         /\ (~Owner \/ n = Count)
              => \A g \in Answers :
                   SeedEpoch(EnabledWith(g, n, d)) = SeedEpoch(Cur)

\* a step is under way in an epoch with seeds and fluid weights: the
\* accumulators hold forces, the copy-in and a force kernel are queued
C21_Witness ==
  /\ ~dead /\ Owner /\ Enabled /\ Count = MaxParts
  /\ build.SHANCHEN
  /\ global_part_vars_host.seed = U32(Half - 1, Half - 1)
  /\ Deref(Cur, "fluid_composition_device") = Fill(LB_COMPONENTS * MaxParts, 0)
  /\ ~AllZero(Deref(Cur, "particle_forces_device"))
  /\ {"hipMemcpyAsync", "force_kernel"} \subseteq pending
  /\ ~StagedOut.dead

\* the device buffers a kernel of the launch in m is passed have the slots
\* of the count in both structs
SlotsMatch(m) ==
  LET n == m.gh.number_of_particles
  IN /\ m.gd.number_of_particles = n
     /\ Len(Deref(m, "particle_forces_device")) = 3 * n
     /\ Len(Deref(m, "particle_seeds_device")) = n
     /\ build.ROTATION => Len(Deref(m, "particle_torques_device")) = 3 * n
     /\ build.SHANCHEN =>
          Len(Deref(m, "fluid_composition_device")) = LB_COMPONENTS * n

\* C22: whenever reconcile or stage_out launches the init or reset kernel,
\* number_of_particles of the device mirror equals the host count and the
\* slots of the device force, torque and seed buffers; the threads that
\* write are exactly those of the particle indices below the count, and no
\* write falls outside its buffer.
C22_KernelWritesInBounds ==
  /\ (~dead /\ Owner) =>
       /\ SlotsMatch(Cur)
       /\ ActiveThreads(Cur, blocks_per_grid_particles_x(Count))
            = 0..(Count - 1)
  /\ ~dead =>
       /\ \A n \in 0..MaxParts, d \in Draws(build) :
            LET r == Reconciled(Cur, n, d)
            IN /\ "oob_write" \notin r.acts
               /\ "launch" \in r.acts =>
                    (r.gh.number_of_particles = n /\ SlotsMatch(r))
       /\ "oob_write" \notin StagedOut.acts
       /\ "launch" \in StagedOut.acts => SlotsMatch(StagedOut)

\* one particle after a resize: 255 threads of the only block row used
\* have nothing to write, the init kernel is queued
C22_Witness ==
  /\ ~dead /\ Owner /\ Enabled /\ Count = 1
  /\ ptr["particle_forces_device"] = 2
  /\ "init_particle_force" \in pending
  /\ Cardinality(LaunchIndices[blocks_per_grid_particles_x(1)]) = 256

\* C23: in every state in which collect_energy performs its copy
\* (communication enabled, number_of_particles > 0) the energy accumulator
\* is allocated, and the copy succeeds.
C23_EnergyAllocatedBeforeRead ==
  (~dead /\ Enabled /\ Count > 0) =>
    /\ Valid(Cur, "energy_device")
    /\ ~copy_energy_from_GPU(Cur, TRUE).dead


Init ==
  /\ this_node \in 0..1
  /\ build \in Builds
  /\ global_part_vars_host =
       [number_of_particles |-> 0, seed |-> U32(0, 0), communication_enabled |-> 0]
  /\ global_part_vars_device =
       [number_of_particles |-> 0, seed |-> U32(0, 0), communication_enabled |-> 0]
  /\ ptr = [k \in Kinds |-> 0]
  /\ heap = <<>>
  /\ energy_host = 0
  /\ pending = {}
  /\ dead = FALSE

\* ---------------------------------------------------------------- actions
Reconcile ==
  /\ ~dead
  /\ \E n_part \in 0..MaxParts :
       IF ReconcileGuard(Cur, this_node, n_part)
         THEN \E d \in Draws(build) :
                Commit(gpu_change_number_of_part_to_comm(Cur, this_node, build,
                         n_part, d[1], d[2].at, d[2].sticky))
         ELSE Commit(gpu_change_number_of_part_to_comm(Cur, this_node, build,
                       n_part, U32(0, 0), 0, TRUE))

EnableCommunication ==
  /\ ~dead
  /\ \E n_part \in 0..MaxParts,
        g \in IF this_node = 0 /\ global_part_vars_host.communication_enabled = 0
               THEN GpuAnswers ELSE {[n_gpus |-> 1, capable |-> TRUE]} :
       IF this_node = 0 /\ global_part_vars_host.number_of_particles # n_part
          /\ g.n_gpus # 0 - 1
         THEN \E d \in Draws(build) :
                Commit(gpu_init_particle_comm(Cur, this_node, build, g.n_gpus,
                         g.capable, n_part, d[1], d[2].at, d[2].sticky))
         ELSE Commit(gpu_init_particle_comm(Cur, this_node, build, g.n_gpus,
                       g.capable, n_part, U32(0, 0), 0, TRUE))

StageIn ==
  /\ ~dead
  /\ \E pv \in PartGens :
       Commit(copy_part_data_to_gpu(Cur, this_node, pv))

StageOut ==
  /\ ~dead
  /\ Commit(copy_forces_from_GPU(Cur, this_node, build, TRUE))

ClearEnergy ==
  /\ ~dead
  /\ \E ok \in BOOLEAN :
       Commit(clear_energy_on_GPU(Cur, ok, TRUE))

CollectEnergy ==
  /\ ~dead
  /\ Commit(copy_energy_from_GPU(Cur, TRUE))

\* a force kernel of another module writes the accumulators it got from
\* gpu_get_particle_force_pointer / gpu_get_particle_torque_pointer
ForceKernel ==
  /\ ~dead
  /\ this_node = 0
  /\ Valid(Cur, "particle_forces_device")
  /\ \E w \in ForcePatterns(Len(Deref(Cur, "particle_forces_device"))) :
       Commit(KERNELCALL(StoreAll(StoreAll(Cur, "particle_forces_device", w),
                                  "particle_torques_device", w),
                         "force_kernel"))

\* an energy kernel adds into the accumulator it got from gpu_get_energy_pointer
EnergyKernel ==
  /\ ~dead
  /\ Valid(Cur, "energy_device")
  /\ Commit(Effect(StoreAll(Cur, "energy_device", <<1>>), "launch"))

\* on the other processes the caller's broadcast overwrites the host struct
\* (through gpu_get_global_particle_vars_pointer_host)
cuda_bcast_global_part_params ==
  /\ ~dead
  /\ this_node # 0
  /\ \E n \in 0..MaxParts, s \in SeedDraws, c \in 0..1 :
       Commit([Cur EXCEPT !.gh = [number_of_particles |-> n, seed |-> s,
                                  communication_enabled |-> c]])

\* the device has worked off its queue
StreamComplete ==
  /\ ~dead
  /\ pending # {}
  /\ pending' = {}
  /\ UNCHANGED <<this_node, build, global_part_vars_host,
                 global_part_vars_device, ptr, heap, energy_host, dead>>

Next ==
  \/ Reconcile
  \/ EnableCommunication
  \/ StageIn
  \/ StageOut
  \/ ClearEnergy
  \/ CollectEnergy
  \/ ForceKernel
  \/ EnergyKernel
  \/ cuda_bcast_global_part_params
  \/ StreamComplete

Spec == Init /\ [][Next]_vars

=============================================================================
